---------------------------- MODULE Spec2Model ----------------------------
(***************************************************************************)
(* A model of conda_forge_feedstock_check_solvable/mamba_solver.py:         *)
(* the bounded-execution wrapper is_recipe_solvable, the variant iteration  *)
(* driver _is_recipe_solvable and the requirement propagation engine        *)
(* _is_recipe_solvable_on_platform, with MambaSolver.solve and the          *)
(* run-export cache they use.                                               *)
(*                                                                          *)
(* Text is modelled as follows.  A requirement string is a record           *)
(* [name, sep, ver, build] that stands for the text                         *)
(* name ++ sep ++ ver ++ (" " ++ build when build is not empty); ver is a   *)
(* sequence of characters.  A variant file is the sequence of the "_"       *)
(* separated tokens of its base name, the extension ".yaml" left out.       *)
(* The dependency solver, the renderer and the channel data are external:   *)
(* they are a fixed small package index (PackageNames, Available,           *)
(* RunExportData) and a recipe chosen in Init.                              *)
(***************************************************************************)
EXTENDS Integers, Sequences, FiniteSets, TLC

(***************************************************************************)
(* Bounds of the model.                                                     *)
(***************************************************************************)
\* the number of variant configuration files of a feedstock
MaxVariants == 2
\* the number of outputs a recipe renders to
MaxOutputs == 2
\* the number of times the caller calls is_recipe_solvable in one process
MaxCalls == 2
\* the longest version string that is broadened on its own
MaxLen == 4

(***************************************************************************)
(* Generic helpers.                                                         *)
(***************************************************************************)
Range(s) == {s[i] : i \in DOMAIN s}

\* the orders in which list(set) may enumerate the set S
ListsOf(S) ==
    {l \in [1..Cardinality(S) -> S] : \A i, j \in DOMAIN l : i # j => l[i] # l[j]}

\* s.startswith(p) on character sequences
StartsWith(s, p) == Len(s) >= Len(p) /\ SubSeq(s, 1, Len(p)) = p

EmptyDict == [k \in {} |-> TRUE]

\* d[k] = v on a dict
DictSet(d, k, v) == [x \in (DOMAIN d) \cup {k} |-> IF x = k THEN v ELSE d[x]]

RECURSIVE JoinTokens(_, _)
\* sep.join(toks) on strings
JoinTokens(toks, sep) ==
    IF toks = <<>> THEN ""
    ELSE IF Len(toks) = 1 THEN toks[1]
    ELSE toks[1] \o sep \o JoinTokens(Tail(toks), sep)

(***************************************************************************)
(* Version broadening: _munge_req_star.                                     *)
(***************************************************************************)
REQ_START == {<<"!", "=">>, <<"=", "=">>, <<">">>, <<"<">>, <<">", "=">>,
              <<"<", "=">>, <<"~", "=">>}

RECURSIVE SplitOn(_, _)
\* s.split(c) for a one-character separator c
SplitOn(s, c) ==
    IF \A i \in DOMAIN s : s[i] # c THEN <<s>>
    ELSE LET k == CHOOSE i \in DOMAIN s : s[i] = c /\ \A j \in 1..(i - 1) : s[j] # c
         IN  <<SubSeq(s, 1, k - 1)>> \o SplitOn(SubSeq(s, k + 1, Len(s)), c)

RECURSIVE LStrip(_)
LStrip(s) == IF s # <<>> /\ Head(s) = " " THEN LStrip(Tail(s)) ELSE s

RECURSIVE RStrip(_)
RStrip(s) ==
    IF s # <<>> /\ s[Len(s)] = " " THEN RStrip(SubSeq(s, 1, Len(s) - 1)) ELSE s

\* pp.strip()
Strip(s) == RStrip(LStrip(s))

\* MungeAlternative that keeps a leading "="
MungeAlternative_KeepsEquals(alt) ==
    LET pp == Strip(alt)
    IN  IF (\E v \in REQ_START : StartsWith(pp, v)) \/ (\E i \in DOMAIN pp : pp[i] = "*")
        THEN pp
        ELSE pp \o <<".", "*">>

\* lines 175-183: one alternative of a version spec
MungeAlternative(alt) ==
    LET pp == Strip(alt)
    IN  IF (\E v \in REQ_START : StartsWith(pp, v)) \/ (\E i \in DOMAIN pp : pp[i] = "*")
        THEN pp
        ELSE (IF StartsWith(pp, <<"=">>) THEN Tail(pp) ELSE pp) \o <<".", "*">>

RECURSIVE JoinChars(_, _)
\* the parts joined with the separator put back between them
JoinChars(parts, c) ==
    IF Len(parts) = 1 THEN parts[1]
    ELSE parts[1] \o <<c>> \o JoinChars(Tail(parts), c)

MungePipes(p) ==
    LET psplit == SplitOn(p, "|")
    IN  JoinChars([ip \in DOMAIN psplit |-> MungeAlternative(psplit[ip])], "|")

_munge_req_star(req) ==
    LET csplit == SplitOn(req, ",")
    IN  JoinChars([ic \in DOMAIN csplit |-> MungePipes(csplit[ic])], ",")

(***************************************************************************)
(* Requirement strings.                                                     *)
(***************************************************************************)
\* the requirement that is a bare package name
P(nm) == [name |-> nm, sep |-> "", ver |-> <<>>, build |-> ""]

\* the requirement "name ver" in conda-build form
PV(nm, v) == [name |-> nm, sep |-> " ", ver |-> v, build |-> ""]

\* r.split(" ")[0] == nm: the text before the first space is exactly nm
FirstTokenIs(r, nm) ==
    /\ r.name = nm
    /\ \/ r.sep = " "
       \/ (r.sep = "" /\ r.ver = <<>> /\ r.build = "")

_clean_reqs(reqs, names) ==
    SelectSeq(reqs, LAMBDA r : ~(\E nm \in names : FirstTokenIs(r, nm)))

problem_reqs == {"parquet-cpp"}

_filter_problematic_reqs(reqs) ==
    SelectSeq(reqs, LAMBDA r : ~(\E nm \in problem_reqs : FirstTokenIs(r, nm)))

\* _norm_spec raises RuntimeError: the spec has a build but no version
NormSpecRaises(r) == r.build # "" /\ r.ver = <<>>

_norm_spec(r) ==
    [name |-> r.name,
     sep |-> IF r.ver # <<>> THEN " " ELSE "",
     ver |-> IF r.ver # <<>> THEN _munge_req_star(r.ver) ELSE <<>>,
     build |-> r.build]

(***************************************************************************)
(* The external world: the package index the solver sees and the            *)
(* run-export data the channels publish.                                    *)
(***************************************************************************)
\* the text of token v is exactly the package name nm
TextIs(v, nm) == v = P(nm)

PackageNames ==
    {"foo", "bad", "lnx", "cc", "lib", "oc", "bar", "ccw", "ccn", "libw", "libn",
     "out1", "out2", "parquet-cpp", "tb", "svc", "dl", "tbw", "svcw", "dlw",
     "numpy", "art", "artw"}

\* the packages each package depends on
DependsOn(nm) == IF nm = "lib" THEN <<"cc">> ELSE <<>>

\* whether the index of a platform holds the package: "bad" is published
\* nowhere, "lnx" for linux only, the recipe's own outputs are not published
Available(platform, nm) ==
    /\ nm \in PackageNames \ {"bad", "out1", "out2"}
    /\ nm = "lnx" => platform \in {"linux-64", "linux-aarch64", "linux-ppc64le"}

\* the version and build the index holds of every package
IndexVersion == <<"1", ".", "0">>
IndexBuild == "0"

\* the run exports each published artifact declares
RunExportData(nm) ==
    IF nm = "cc"
    THEN [weak |-> {P("ccw")}, strong |-> {P("bar")}, noarch |-> {P("ccn")}]
    ELSE IF nm = "lib"
    THEN [weak |-> {P("libw")}, strong |-> {}, noarch |-> {P("libn")}]
    ELSE IF nm = "oc"
    THEN [weak |-> {}, strong |-> {P("out1")}, noarch |-> {}]
    ELSE IF nm \in {"tb", "svc", "dl", "art"}
    THEN [weak |-> {P(nm \o "w")}, strong |-> {}, noarch |-> {}]
    ELSE [weak |-> {}, strong |-> {}, noarch |-> {}]

DEFAULT_RUN_EXPORTS == [weak |-> {}, strong |-> {}, noarch |-> {}]

\* the state of the channel's run-export data sources during the check
VARIABLE net

NetOk == [manifest |-> "ok", channeldata |-> "ok", service |-> "ok", download |-> "ok"]

\* all sources answer, or one of them fails: the manifest cannot be reached,
\* or what is served under its URL is no zstd-compressed JSON; the channel
\* data fetch, the metadata service or the artifact download fails
Nets ==
    {NetOk,
     [NetOk EXCEPT !.manifest = "unreachable"],
     [NetOk EXCEPT !.manifest = "corrupt"],
     [NetOk EXCEPT !.channeldata = "error"],
     [NetOk EXCEPT !.service = "error"],
     [NetOk EXCEPT !.download = "error"]}

\* raw export data of a source: found is the truth value the code tests
NoData == [found |-> FALSE, rx |-> DEFAULT_RUN_EXPORTS]
Data(rx) == [found |-> TRUE, rx |-> rx]

\* the artifact's file extension: tb is published as .tar.bz2
FileExt(nm) == IF nm = "tb" THEN ".tar.bz2" ELSE ".conda"

\* run_exports_json.get(section, {}).get(filename, {}).get("run_exports", {})
ManifestEntry(section, nm) ==
    IF section = "packages.conda" /\ nm \in {"cc", "lib", "oc"} THEN Data(RunExportData(nm))
    ELSE IF section = "packages" /\ nm = "tb" THEN Data(RunExportData(nm))
    ELSE NoData

\* cd.get("packages", {}).get(name, {}).get("run_exports", {})
ChanneldataHasExports(nm) == nm \in {"cc", "lib", "oc", "tb", "svc", "dl"}

\* get_artifact_info_as_json(...): the rendered recipe's build/run_exports
ArtifactInfo(nm) ==
    IF nm \in {"cc", "lib", "oc", "tb", "svc"} THEN Data(RunExportData(nm)) ELSE NoData

\* info/run_exports.json of the unpacked artifact, as sets per bucket
ArtifactFile(nm) == Data(RunExportData(nm))

(***************************************************************************)
(* The run-export cache (_get_run_export is an lru_cache keyed by the link  *)
(* tuple, here the package name) and MambaSolver.                           *)
(***************************************************************************)
NoExc == [type |-> "", msg |-> ""]

Exception(t, m) == [type |-> t, msg |-> m]

\* a value returned, or an exception raised
Returned(v) == [raised |-> FALSE, exc |-> NoExc, val |-> v]
Raised(e) == [raised |-> TRUE, exc |-> e, val |-> NoData]

\* _fetch_json_zst and lines 389-395: only requests.RequestException is
\* caught; what zstd.decompress and json.loads raise goes on
FirstSource(nm) ==
    IF net.manifest = "unreachable" THEN Returned(NoData)
    ELSE IF net.manifest = "corrupt"
    THEN Raised(Exception("ZstdError", "decompression error"))
    ELSE IF FileExt(nm) = ".conda"
    THEN Returned(ManifestEntry("packages.conda", nm))
    ELSE Returned(ManifestEntry("packages.conda", nm))

\* _get_run_export_download: any exception gives run_exports = None
ThirdSource(nm) == IF net.download = "error" THEN NoData ELSE ArtifactFile(nm)

\* SecondSource with the download outside the channel data's branch
SecondSource_DownloadAlways(nm) ==
    IF net.channeldata = "error"
    THEN Raised(Exception("ConnectionError", "channeldata"))
    ELSE IF ~ChanneldataHasExports(nm) THEN Returned(ThirdSource(nm))
    ELSE IF net.service = "error"
    THEN Raised(Exception("ConnectionError", "artifact info"))
    ELSE IF ArtifactInfo(nm).found THEN Returned(ArtifactInfo(nm))
    ELSE Returned(ThirdSource(nm))

\* lines 398-417: the channel data, the metadata service and, inside the
\* same branch, the download
SecondSource(nm) ==
    IF net.channeldata = "error"
    THEN Raised(Exception("ConnectionError", "channeldata"))
    ELSE IF ~ChanneldataHasExports(nm) THEN Returned(NoData)
    ELSE IF net.service = "error"
    THEN Raised(Exception("ConnectionError", "artifact info"))
    ELSE IF ArtifactInfo(nm).found THEN Returned(ArtifactInfo(nm))
    ELSE Returned(ThirdSource(nm))

\* lines 419-445: the buckets of the raw data put into a fresh bundle
Sanitize(raw) ==
    IF raw.found
    THEN [key \in DOMAIN DEFAULT_RUN_EXPORTS |-> DEFAULT_RUN_EXPORTS[key] \cup raw.rx[key]]
    ELSE DEFAULT_RUN_EXPORTS

\* lines 397-398: the later sources are asked when the first gave nothing
OrSecondSource(first, nm) ==
    IF first.raised \/ first.val.found THEN first ELSE SecondSource(nm)

\* the bundle of the raw data rx, unless the lookup raised
Sanitized(got) == IF got.raised THEN got ELSE Returned(Sanitize(got.val))

\* the body of _get_run_export: the bundle built on a cache miss
FetchRunExport(nm) == Sanitized(OrSecondSource(FirstSource(nm), nm))

\* a cache miss: the bundle got is stored, an exception is not
CacheMiss(cache, nm, got) ==
    IF got.raised
    THEN [raised |-> TRUE, exc |-> got.exc, rx |-> DEFAULT_RUN_EXPORTS, cache |-> cache]
    ELSE [raised |-> FALSE, exc |-> NoExc, rx |-> got.val,
          cache |-> DictSet(cache, nm, got.val)]

\* _get_run_export(link_tuple) through its lru_cache: the bundle (or the
\* exception) and the cache afterwards
_get_run_export(cache, nm) ==
    IF nm \in DOMAIN cache
    THEN [raised |-> FALSE, exc |-> NoExc, rx |-> cache[nm], cache |-> cache]
    ELSE CacheMiss(cache, nm, FetchRunExport(nm))

\* lines 592-593: rx[key] = {v for v in rx[key] if v not in ign_rex}
FilterBundle(rx, ign_rex) ==
    [key \in DOMAIN rx |-> {v \in rx[key] : ~(\E nm \in ign_rex : TextIs(v, nm))}]

\* lines 594-595: run_exports[key] |= rx[key]
MergeBundle(run_exports, rx) ==
    [key \in DOMAIN DEFAULT_RUN_EXPORTS |-> run_exports[key] \cup rx[key]]

RECURSIVE RunExportsLoop(_, _, _, _, _, _)
RECURSIVE RunExportsStep(_, _, _, _, _, _)
\* lines 591-595 for the link tuple at the head, whose lookup gave got, and
\* then the rest of the loop; the filtered rx is the dict the cache holds,
\* so the filtered buckets are written into the cache
RunExportsStep(link_names, names, ign_rex_from, ign_rex, run_exports, got) ==
    IF got.raised
    THEN [raised |-> TRUE, exc |-> got.exc,
          run_exports |-> DEFAULT_RUN_EXPORTS, cache |-> got.cache]
    ELSE RunExportsLoop(Tail(link_names), names, ign_rex_from, ign_rex,
                        MergeBundle(run_exports, FilterBundle(got.rx, ign_rex)),
                        DictSet(got.cache, Head(link_names),
                                FilterBundle(got.rx, ign_rex)))

\* lines 588-595, over the link tuples that are left
RunExportsLoop(link_names, names, ign_rex_from, ign_rex, run_exports, cache) ==
    IF link_names = <<>>
    THEN [raised |-> FALSE, exc |-> NoExc, run_exports |-> run_exports, cache |-> cache]
    ELSE IF Head(link_names) \in names /\ Head(link_names) \notin ign_rex_from
    THEN RunExportsStep(link_names, names, ign_rex_from, ign_rex, run_exports,
                        _get_run_export(cache, Head(link_names)))
    ELSE RunExportsLoop(Tail(link_names), names, ign_rex_from, ign_rex,
                        run_exports, cache)

\* MambaSolver._get_run_exports
_get_run_exports(link_names, _specs, ignore_run_exports_from, ignore_run_exports, cache) ==
    RunExportsLoop(link_names,
                   {s.name : s \in Range(_specs)},
                   {s.name : s \in Range(ignore_run_exports_from)},
                   {s.name : s \in Range(ignore_run_exports)},
                   DEFAULT_RUN_EXPORTS, cache)

RECURSIVE Dedup(_)
Dedup(s) ==
    IF s = <<>> THEN <<>>
    ELSE <<Head(s)>> \o Dedup(SelectSeq(Tail(s), LAMBDA x : x # Head(s)))

RECURSIVE Flatten(_)
Flatten(ss) == IF ss = <<>> THEN <<>> ELSE Head(ss) \o Flatten(Tail(ss))

\* the packages of the install set: the requested ones, then what they need
LinkNames(_specs) ==
    LET asked == [i \in DOMAIN _specs |-> _specs[i].name]
    IN  Dedup(asked \o Flatten([i \in DOMAIN asked |-> DependsOn(asked[i])]))

\* solver.solve(): every requested package and all it needs are in the index
SolverSuccess(platform, _specs) ==
    \A nm \in Range(LinkNames(_specs)) : Available(platform, nm)

\* solver.explain_problems()
ExplainProblems(platform, _specs) ==
    LET missing == {nm \in Range(LinkNames(_specs)) : ~Available(platform, nm)}
        first == CHOOSE i \in DOMAIN LinkNames(_specs) :
                    /\ LinkNames(_specs)[i] \in missing
                    /\ \A j \in 1..(i - 1) : LinkNames(_specs)[j] \notin missing
    IN  "nothing provides " \o LinkNames(_specs)[first]

\* " ".join([data["name"], data["version"], data["build"]])
SolutionEntry(nm) == [name |-> nm, sep |-> " ", ver |-> IndexVersion, build |-> IndexBuild]

SpecHasBuildNoVersion == Exception("RuntimeError", "spec has build but not version!")

\* MambaSolver.solve.  The result has raised = TRUE when _norm_spec or the
\* run-export lookup raises; solution is <<>> where the code returns None.
Solve(platform, specs, get_run_exports, ignore_run_exports_from, ignore_run_exports, cache) ==
    IF \E i \in DOMAIN specs : NormSpecRaises(specs[i])
    THEN [raised |-> TRUE, exc |-> SpecHasBuildNoVersion,
          success |-> FALSE, err |-> "", solution |-> <<>>,
          run_exports |-> DEFAULT_RUN_EXPORTS, cache |-> cache,
          specs |-> <<>>, platform |-> platform]
    ELSE LET _specs == [i \in DOMAIN specs |-> _norm_spec(specs[i])]
             success == SolverSuccess(platform, _specs)
             links == LinkNames(_specs)
             rx == IF success /\ get_run_exports
                   THEN _get_run_exports(links, _specs, ignore_run_exports_from,
                                         ignore_run_exports, cache)
                   ELSE [raised |-> FALSE, exc |-> NoExc,
                         run_exports |-> DEFAULT_RUN_EXPORTS, cache |-> cache]
         IN  [raised |-> rx.raised,
              exc |-> rx.exc,
              success |-> success,
              err |-> IF success THEN "" ELSE ExplainProblems(platform, _specs),
              solution |-> IF success
                           THEN [i \in DOMAIN links |-> SolutionEntry(links[i])]
                           ELSE <<>>,
              run_exports |-> rx.run_exports,
              cache |-> rx.cache,
              specs |-> _specs,
              platform |-> platform]

(***************************************************************************)
(* apply_pins and the renderer's get_pin_from_build.                        *)
(***************************************************************************)
\* dep.split()[0]: the text before the first blank, which is the package
\* name only when a blank (or nothing) follows the name
DepName(dep) ==
    IF FirstTokenIs(dep, dep.name) THEN dep.name
    ELSE dep.name \o dep.sep \o JoinTokens(dep.ver, "")

\* utils.apply_pin_expressions(version, min_pin, max_pin)
PinExpression(version) == <<">", "=">> \o version

\* get_pin_from_build raises: numpy x.x asked for and numpy not a build dep
PinRaises(m, dep, versions) ==
    /\ ~(DepName(dep) \in DOMAIN versions /\ DepName(dep) \in m.pin_run_as_build)
    /\ dep.name = "numpy" /\ dep.ver = <<"x", ".", "x">>
    /\ "numpy" \notin DOMAIN versions

\* get_pin_from_build(m, dep, full_build_dep_versions)
get_pin_from_build(m, dep, versions) ==
    IF DepName(dep) \in DOMAIN versions /\ DepName(dep) \in m.pin_run_as_build
    THEN [name |-> DepName(dep), sep |-> " ",
          ver |-> PinExpression(versions[DepName(dep)].ver), build |-> dep.build]
    ELSE dep

\* apply_pins that always takes the versions from the host phase
apply_pins_FromHost(reqs, host_req, build_req, outnames, m) ==
    LET cleaned == _clean_reqs(host_req, outnames)
        full_build_dep_versions ==
            [nm \in {DepName(d) : d \in Range(cleaned)} |->
                LET last == CHOOSE i \in DOMAIN cleaned :
                                /\ DepName(cleaned[i]) = nm
                                /\ \A j \in DOMAIN cleaned :
                                       DepName(cleaned[j]) = nm => j <= i
                IN  [ver |-> cleaned[last].ver, build |-> cleaned[last].build]]
        pinned_req ==
            [i \in DOMAIN reqs |->
                IF PinRaises(m, reqs[i], full_build_dep_versions)
                THEN reqs[i]
                ELSE get_pin_from_build(m, reqs[i], full_build_dep_versions)]
    IN  _filter_problematic_reqs(pinned_req)

apply_pins(reqs, host_req, build_req, outnames, m) ==
    LET pin_deps == IF m.is_cross THEN host_req ELSE build_req
        cleaned == _clean_reqs(pin_deps, outnames)
        full_build_dep_versions ==
            [nm \in {DepName(d) : d \in Range(cleaned)} |->
                LET last == CHOOSE i \in DOMAIN cleaned :
                                /\ DepName(cleaned[i]) = nm
                                /\ \A j \in DOMAIN cleaned :
                                       DepName(cleaned[j]) = nm => j <= i
                IN  [ver |-> cleaned[last].ver, build |-> cleaned[last].build]]
        pinned_req ==
            [i \in DOMAIN reqs |->
                IF PinRaises(m, reqs[i], full_build_dep_versions)
                THEN reqs[i]
                ELSE get_pin_from_build(m, reqs[i], full_build_dep_versions)]
    IN  _filter_problematic_reqs(pinned_req)

(***************************************************************************)
(* The inputs: the feedstock's variant files, its recipe, and the           *)
(* arguments of the caller.                                                 *)
(***************************************************************************)
\* every variant file a feedstock may hold, in sorted() order of the base
\* names: "linux.yaml" < "linux_64_.yaml" < "osx_arm64_.yaml"
AllCbcFiles == << <<"linux">>, <<"linux", "64", "">>, <<"osx", "arm64", "">> >>

\* sorted(glob.glob(".ci_support/*.yaml")): a sorted choice of the files
CbcChoices ==
    {[i \in 1..Len(ks) |-> AllCbcFiles[ks[i]]] :
        ks \in {k \in UNION {[1..n -> DOMAIN AllCbcFiles] : n \in 0..MaxVariants} :
                    \A i, j \in DOMAIN k : i < j => k[i] < k[j]}}

\* os.path.basename(cbc_fname).split("_")
SplitUnderscore(f) == [i \in DOMAIN f |-> IF i = Len(f) THEN f[i] \o ".yaml" ELSE f[i]]

\* os.path.basename(cbc_fname).rsplit(".", maxsplit=1)[0]
CbcName(f) == JoinTokens(f, "_")

KnownArchs == {"32", "aarch64", "ppc64le", "armv7l", "arm64"}

\* the build_platform argument of the caller: osx_arm64 is built on osx_64
\* (each value is kept as the tokens of its split("_"))
build_platform == [k \in {"osx_arm64"} |-> <<"osx", "64">>]

\* build_platform.get(f"{platform}_{arch}", f"{platform}_{arch}").split("_")
BuildPlatformArch(platform, arch) ==
    IF (platform \o "_" \o arch) \in DOMAIN build_platform
    THEN build_platform[platform \o "_" \o arch]
    ELSE <<platform, arch>>

\* a rendered output (conda_build MetaData) with the values the engine reads
Output(nm, cross, na, bih, b, h, r, t) ==
    [name |-> nm, is_cross |-> cross, noarch |-> na, build_is_host |-> bih,
     build |-> b, host |-> h, run |-> r,
     test_requires |-> t, test_requirements |-> <<>>,
     ign_runex |-> <<>>, ign_runex_from |-> <<>>, pin_run_as_build |-> {}]

\* outputs over the whole cross / noarch / build_is_host matrix
MatrixOutputs ==
    {Output("out1", c, n, b, <<P("cc")>>, h, r, <<>>) :
        c \in BOOLEAN, n \in BOOLEAN, b \in BOOLEAN,
        h \in {<<>>, <<P("lib")>>}, r \in {<<>>, <<P("foo")>>}}

\* outputs with run and test requirements only
SimpleOutputs ==
    {Output("out1", FALSE, FALSE, FALSE, <<>>, <<>>, r, t) :
        r \in {<<>>, <<P("foo")>>, <<P("bad")>>, <<P("lnx")>>},
        t \in {<<>>, <<P("foo")>>}}

\* outputs with a failing build, a spec that has a build string but no
\* version, a reference to the recipe's own output, ignored run exports,
\* a build requirement that exports the output itself, a reference to the
\* recipe's own output written "out1>=1" with no space after the name
SpecialOutputs ==
    {Output("out1", FALSE, FALSE, FALSE, <<P("bad")>>, <<>>, <<P("foo")>>, <<>>),
     Output("out1", FALSE, FALSE, FALSE, <<>>, <<>>,
            <<[name |-> "foo", sep |-> "[", ver |-> <<>>, build |-> "py_0"]>>, <<>>),
     Output("out1", FALSE, FALSE, FALSE, <<P("out1")>>, <<>>, <<P("out1"), P("foo")>>, <<>>),
     [Output("out1", FALSE, FALSE, FALSE, <<P("cc")>>, <<>>, <<>>, <<>>)
        EXCEPT !.ign_runex = <<P("bar")>>],
     [Output("out1", FALSE, FALSE, FALSE, <<P("cc")>>, <<>>, <<>>, <<>>)
        EXCEPT !.ign_runex_from = <<P("cc")>>],
     Output("out1", FALSE, FALSE, FALSE, <<P("oc")>>, <<>>, <<P("foo")>>, <<>>),
     Output("out1", FALSE, FALSE, FALSE, <<>>, <<>>,
            <<[name |-> "out1", sep |-> "", ver |-> <<">", "=", "1">>, build |-> ""],
              P("foo")>>, <<>>)}

\* outputs whose build requirement has its run exports in one source only:
\* the manifest (cc), the metadata service (svc), the artifact (dl), one
\* published as .tar.bz2 (tb), and one whose exports are in the artifact
\* while the channel data lists none for it (art)
FetchOutputs ==
    {Output("out1", FALSE, FALSE, FALSE, <<P(x)>>, <<>>, <<>>, <<>>) :
        x \in {"cc", "svc", "dl", "tb", "art"}}

\* outputs that pin the run requirement lib to the version resolved for
\* it, with lib a build requirement or a host requirement; and an output
\* that asks for "numpy x.x" with numpy not resolved before
PinOutputs ==
    {[Output("out1", c, FALSE, FALSE, b, h, <<P("lib")>>, <<>>)
        EXCEPT !.pin_run_as_build = {"lib"}] :
        c \in BOOLEAN,
        b \in {<<P("lib")>>, <<P("foo")>>}, h \in {<<>>, <<P("lib")>>}}
    \cup {Output("out1", FALSE, FALSE, FALSE, <<>>, <<>>,
                 <<PV("numpy", <<"x", ".", "x">>)>>, <<>>)}

\* the outputs of recipes with several outputs
SiblingOutputs ==
    {[Output("out1", FALSE, FALSE, FALSE, <<P("cc")>>, <<>>, <<>>, <<>>)
        EXCEPT !.ign_runex = <<P("bar")>>],
     Output("out2", FALSE, FALSE, FALSE, <<P("cc")>>, <<>>, <<P("out1")>>, <<>>),
     Output("out2", FALSE, FALSE, FALSE, <<>>, <<>>, <<P("lnx")>>, <<>>)}

\* what conda_build.api.render gives for the recipe
MetasChoices ==
    {<<>>} \cup {<<o>> : o \in MatrixOutputs \cup SimpleOutputs \cup SpecialOutputs
                                \cup FetchOutputs \cup PinOutputs}
    \cup UNION {[1..n -> SiblingOutputs] : n \in 2..MaxOutputs}

\* a recipe: whether recipe/meta.yaml exists, whether it renders, its outputs
Recipes ==
    {[exists |-> FALSE, renders |-> FALSE, metas |-> <<>>],
     [exists |-> TRUE, renders |-> FALSE, metas |-> <<>>]}
    \cup {[exists |-> TRUE, renders |-> TRUE, metas |-> ms] : ms \in MetasChoices}

\* the recipes that are checked with a failing data source as well
NetRecipe(r) == r.renders /\ Len(r.metas) = 1 /\ r.metas[1] \in FetchOutputs

\* the timeout argument: disabled, or a budget in seconds
Timeouts == {0, 600}

(***************************************************************************)
(* Values of the program.                                                   *)
(***************************************************************************)
ResultTuple(s, e, v) == [solvable |-> s, errors |-> e, solvable_by_variant |-> v]

NoRes == [none |-> TRUE]

\* repr(e)
Repr(e) == e.type \o "('" \o e.msg \o "')"

NoCbcError == "No .ci_support yaml files found!"

NoMetaError == "No recipe meta.yaml file found!"

\* the locals of _is_recipe_solvable before its loop
NoDriver == [errors |-> <<>>, solvable |-> TRUE, solvable_by_cbc |-> EmptyDict, icbc |-> 1]

\* the locals of _is_recipe_solvable_on_platform before it is entered
NoEngine ==
    [platform |-> "", arch |-> "", metas |-> <<>>, imeta |-> 1,
     solvable |-> TRUE, errors |-> <<>>,
     build_req |-> <<>>, host_req |-> <<>>, run_req |-> <<>>]

(***************************************************************************)
(* The state.                                                               *)
(***************************************************************************)
VARIABLES
    cbcs,      \* the feedstock's variant files, sorted
    recipe,    \* the feedstock's recipe
    ncall,     \* the calls of is_recipe_solvable started so far
    timeout,   \* the timeout argument of the call in progress
    pc,        \* where the caller is: idle, poll, teardown, inproc, returned, raised
    res,       \* is_recipe_solvable's res
    received,  \* what parent_conn.poll gave: none, result, exception, timeout
    prev,      \* the timeout, the end and the result of the call before this one
    pipe,      \* what was sent on child_conn and not yet received
    worker,    \* the worker process: none, running, exited, crashed, killed
    cache,     \* the run-export cache of the parent and of the worker process
    wpc,       \* where the check (_func / _is_recipe_solvable) is
    exc,       \* the exception the check raised
    checkRes,  \* what _is_recipe_solvable returned
    driver,    \* the locals of _is_recipe_solvable
    engine,    \* the locals of _is_recipe_solvable_on_platform
    calls,     \* the solver calls of the check in progress, in order
    hist,      \* how often the check rendered and asked for a solver handle
    runner_temp, \* whether RUNNER_TEMP is set in the environment
    chans,     \* the list object the caller passes as additional_channels
    environ,   \* CONDA_OVERRIDE_GLIBC in os.environ of the parent and the worker
    tmpdirs,   \* the virtual-package index and extraction directories on disk
    entry,     \* the caller's list and environment when the call was made
    conns,     \* the two ends of the pipe: parent_conn, and the worker's child_conn
    spec_str,  \* the version string _munge_req_star is applied to on its own
    munged     \* what _munge_req_star returned, applied to req and again

vars == <<cbcs, recipe, net, ncall, timeout, pc, res, received, prev, pipe, worker,
          cache, wpc, exc, checkRes, driver, engine, calls, hist,
          runner_temp, chans, environ, tmpdirs, entry, conns,
          spec_str, munged>>

inputs == <<cbcs, recipe, net, runner_temp, spec_str, munged>>
callerVars == <<ncall, timeout, pc, res, received, prev, entry>>
osVars == <<chans, environ, tmpdirs, conns>>

\* no pipe: the call has no timeout, or none was made yet
NoConns == [parent_conn |-> "none", child_conn |-> "none"]

\* parent_conn, child_conn = Pipe(), the worker started with child_conn
OpenConns == [parent_conn |-> "open", child_conn |-> "open"]

\* the directories on disk: the index directory the parent made, the one
\* the worker of this call made, its extraction directory, and whether a
\* worker of an earlier call left a directory behind
NoTmpdirs == [parent |-> FALSE, worker |-> FALSE, extract |-> FALSE, leaked |-> FALSE]

\* the recipes that are checked with every environment of the caller
EnvRecipe(r) ==
    \/ ~r.renders
    \/ r.metas = <<Output("out1", FALSE, FALSE, FALSE, <<>>, <<>>, <<P("foo")>>, <<>>)>>
    \/ r.metas = <<Output("out1", FALSE, FALSE, FALSE, <<P("cc")>>, <<>>, <<P("foo")>>, <<>>)>>

\* what the caller passes as additional_channels: None (or an empty list),
\* or a list of one channel
ChannelArgs == {<<>>, <<"extra">>}

\* CONDA_OVERRIDE_GLIBC in the caller's environment
GlibcSettings == {"unset", "2.17"}

NoPrev == [timeout |-> 0, pc |-> "idle", res |-> NoRes, received |-> "none"]

NoHist == [renders |-> 0, factories |-> 0]

Init ==
    /\ cbcs \in CbcChoices
    /\ recipe \in Recipes
    /\ net \in (IF NetRecipe(recipe) THEN Nets ELSE {NetOk})
    /\ ncall = 0
    /\ timeout = 0
    /\ pc = "idle"
    /\ res = NoRes
    /\ received = "none"
    /\ prev = NoPrev
    /\ pipe = <<>>
    /\ worker = "none"
    /\ cache = [parent |-> EmptyDict, worker |-> EmptyDict]
    /\ wpc = "off"
    /\ exc = NoExc
    /\ checkRes = NoRes
    /\ driver = NoDriver
    /\ engine = NoEngine
    /\ calls = <<>>
    /\ hist = NoHist
    /\ runner_temp \in (IF EnvRecipe(recipe) THEN BOOLEAN ELSE {FALSE})
    /\ chans \in (IF EnvRecipe(recipe) THEN ChannelArgs ELSE {<<>>})
    /\ \E g \in (IF EnvRecipe(recipe) THEN GlibcSettings ELSE {"unset"}) :
          environ = [parent |-> g, worker |-> g]
    /\ tmpdirs = NoTmpdirs
    /\ entry = [chans |-> chans, glibc |-> environ.parent]
    /\ conns = NoConns
    /\ spec_str = <<>>
    /\ munged = <<>>

\* the process that runs the check
Proc == IF timeout # 0 THEN "worker" ELSE "parent"

\* the check can take a step: its process is alive and inside the check
CheckRunning == IF timeout # 0 THEN worker = "running" ELSE pc = "inproc"

(***************************************************************************)
(* is_recipe_solvable: the call.  With a timeout (lines 762-776) a pipe and *)
(* a worker process are made and the worker is started: the worker is a     *)
(* fork of the parent and has a copy of its run-export cache.  Without      *)
(* (lines 802-808) the check runs in the caller's process.                  *)
(***************************************************************************)
Call(t) ==
    /\ pc \in {"idle", "returned", "raised"}
    /\ ncall < MaxCalls
    /\ ncall' = ncall + 1
    /\ timeout' = t
    /\ prev' = IF ncall = 0 THEN NoPrev
               ELSE [timeout |-> timeout, pc |-> pc, res |-> res, received |-> received]
    /\ res' = NoRes
    /\ received' = "none"
    /\ pipe' = <<>>
    /\ pc' = IF t # 0 THEN "poll" ELSE "inproc"
    /\ worker' = IF t # 0 THEN "running" ELSE "none"
    /\ cache' = IF t # 0 THEN [cache EXCEPT !.worker = cache.parent] ELSE cache
    /\ wpc' = "config"
    /\ exc' = NoExc
    /\ checkRes' = NoRes
    /\ driver' = NoDriver
    /\ engine' = NoEngine
    /\ calls' = <<>>
    /\ hist' = NoHist
    /\ entry' = [chans |-> chans, glibc |-> environ.parent]
    /\ environ' = IF t # 0 THEN [environ EXCEPT !.worker = environ.parent] ELSE environ
    /\ tmpdirs' = IF t # 0
                  THEN [tmpdirs EXCEPT !.worker = FALSE, !.extract = FALSE,
                                       !.leaked = @ \/ tmpdirs.worker \/ tmpdirs.extract]
                  ELSE tmpdirs
    /\ conns' = IF t # 0 THEN OpenConns ELSE NoConns
    /\ UNCHANGED <<inputs, chans>>

\* raise e inside the check
Raise(e) ==
    /\ exc' = e
    /\ wpc' = "exc"

\* return r from _is_recipe_solvable
Return(r) ==
    /\ checkRes' = r
    /\ wpc' = "ret"

(***************************************************************************)
(* _is_recipe_solvable, lines 820-849: the variant files and the recipe     *)
(* file are looked for.                                                     *)
(***************************************************************************)
\* ConfigErrors without the test for recipe/meta.yaml
ConfigErrors_NoRecipeTest == IF Len(cbcs) = 0 THEN <<NoCbcError>> ELSE <<>>

\* lines 829-846: the error of a feedstock that cannot be checked
ConfigErrors ==
    IF Len(cbcs) = 0 THEN <<NoCbcError>>
    ELSE IF ~recipe.exists THEN <<NoMetaError>>
    ELSE <<>>

MAX_GLIBC_MINOR == 50

\* "2.%d" % MAX_GLIBC_MINOR
GlibcOverride == "2." \o ToString(MAX_GLIBC_MINOR)

\* virtual_package_repodata(): the channel of the process's index directory
VirtualChannel == "file:///tmp/virtual"

\* lines 825-826 on the list object that was passed: "x or []" keeps a
\* non-empty list, and += extends that list in place
AddVirtualChannel(additional_channels) ==
    IF additional_channels # <<>>
    THEN Append(additional_channels, VirtualChannel)
    ELSE additional_channels

\* virtual_package_repodata (lru_cache of size 1): the index directory is
\* made by the first call in a process; a forked worker has the parent's
\* cached channel, if the parent made one
MakeIndexDir(dirs, proc) ==
    IF proc = "parent" THEN [dirs EXCEPT !.parent = TRUE]
    ELSE IF dirs.parent THEN dirs
    ELSE [dirs EXCEPT !.worker = TRUE]

\* the index directory after the atexit handler of lines 615-620, which is
\* registered only when RUNNER_TEMP is not set
AtExit(dir_exists) == dir_exists /\ runner_temp

CheckConfig ==
    /\ CheckRunning
    /\ wpc = "config"
    /\ chans' = IF Proc = "parent" THEN AddVirtualChannel(chans) ELSE chans
    /\ tmpdirs' = MakeIndexDir(tmpdirs, Proc)
    /\ environ' = [environ EXCEPT ![Proc] = GlibcOverride]
    /\ IF ConfigErrors # <<>>
       THEN Return(ResultTuple(FALSE, ConfigErrors, EmptyDict)) /\ UNCHANGED driver
       ELSE /\ driver' = NoDriver
            /\ wpc' = "variant"
            /\ UNCHANGED checkRes
    /\ UNCHANGED <<inputs, callerVars, conns, pipe, worker, cache, exc, engine, calls, hist>>

(***************************************************************************)
(* _is_recipe_solvable, lines 851-863 and 881-883: the head of the loop     *)
(* over the variant files; platform and arch are read off the file name.    *)
(***************************************************************************)
VariantLoop ==
    /\ CheckRunning
    /\ wpc = "variant"
    /\ IF driver.icbc > Len(cbcs)
       THEN /\ Return(ResultTuple(driver.solvable, driver.errors, driver.solvable_by_cbc))
            /\ environ' = [environ EXCEPT ![Proc] = "unset"]
            /\ UNCHANGED <<exc, engine>>
       ELSE LET _parts == SplitUnderscore(cbcs[driver.icbc])
            IN  IF Len(_parts) < 2
                THEN /\ Raise(Exception("IndexError", "list index out of range"))
                     /\ UNCHANGED <<checkRes, engine, environ>>
                ELSE /\ engine' = [NoEngine EXCEPT
                            !.platform = _parts[1],
                            !.arch = IF _parts[2] \in KnownArchs THEN _parts[2] ELSE "64"]
                     /\ wpc' = "render"
                     /\ UNCHANGED <<checkRes, exc, environ>>
    /\ UNCHANGED <<inputs, callerVars, chans, tmpdirs, conns, pipe, worker, cache, driver, calls,
                   hist>>

(***************************************************************************)
(* _is_recipe_solvable_on_platform, lines 934-1018: the recipe is rendered  *)
(* and the two solver handles are asked for.                                *)
(***************************************************************************)
Render ==
    /\ CheckRunning
    /\ wpc = "render"
    /\ IF ~recipe.renders
       THEN /\ Raise(Exception("RenderError", "could not render the recipe"))
            /\ hist' = [hist EXCEPT !.renders = @ + 1]
            /\ UNCHANGED engine
       ELSE /\ engine' = [engine EXCEPT !.metas = recipe.metas, !.imeta = 1,
                                        !.solvable = TRUE, !.errors = <<>>]
            /\ hist' = [hist EXCEPT !.renders = @ + 1, !.factories = @ + 2]
            /\ wpc' = "output"
            /\ UNCHANGED exc
    /\ UNCHANGED <<inputs, callerVars, osVars, pipe, worker, cache, checkRes, driver, calls>>

\* f"{platform}-{arch}": the platform of solver
SolverPlatform == engine.platform \o "-" \o engine.arch

\* f"{build_platform}-{build_arch}": the platform of build_solver
BuildSolverPlatform ==
    LET bp == BuildPlatformArch(engine.platform, engine.arch)
    IN  bp[1] \o "-" \o bp[2]

\* outnames = [m.name() for m, _, _ in metas]
Outnames == {engine.metas[i].name : i \in DOMAIN engine.metas}

\* the output the loop is at
CurrentOutput == engine.metas[engine.imeta]

(***************************************************************************)
(* Lines 1019-1026: the head of the loop over the outputs; and, when the    *)
(* outputs are done, lines 1093-1099 and the driver's lines 876-879.        *)
(***************************************************************************)
OutputLoop ==
    /\ CheckRunning
    /\ wpc = "output"
    /\ IF engine.imeta > Len(engine.metas)
       THEN LET cbc_name == CbcName(cbcs[driver.icbc])
            IN  /\ driver' = [driver EXCEPT
                        !.solvable = driver.solvable /\ engine.solvable,
                        !.errors = driver.errors \o
                            [i \in DOMAIN engine.errors |->
                                cbc_name \o ": " \o engine.errors[i]],
                        !.solvable_by_cbc = DictSet(driver.solvable_by_cbc, cbc_name,
                                                    engine.solvable),
                        !.icbc = driver.icbc + 1]
                /\ wpc' = "variant"
                /\ UNCHANGED engine
       ELSE /\ engine' = [engine EXCEPT !.build_req = CurrentOutput.build,
                                        !.host_req = CurrentOutput.host,
                                        !.run_req = CurrentOutput.run]
            /\ wpc' = "build"
            /\ UNCHANGED driver
    /\ UNCHANGED <<inputs, callerVars, osVars, pipe, worker, cache, exc, checkRes, calls, hist>>

\* the local additional_channels of _is_recipe_solvable after lines
\* 825-826: the caller's list object with the virtual-package channel at
\* its end when the check runs in the caller's process and the list was
\* not empty; otherwise a list of the check's own
additional_channels ==
    IF Proc = "parent" /\ chans # <<>> THEN chans ELSE Append(chans, VirtualChannel)

\* cbc_cfg["channel_sources"] of a variant file, each entry as the parts
\* between its commas: the osx variant names two channels in one entry,
\* the other files have no such key
cbc_cfg_channel_sources(f) ==
    IF f[1] = "osx"
    THEN [present |-> TRUE, sources |-> << <<"conda-forge/label/rc", "conda-forge">> >>]
    ELSE [present |-> FALSE, sources |-> <<>>]

\* lines 949-950: msys2 is put at the end when it is missing
WithMsys2(sources) ==
    IF "msys2" \in Range(sources) THEN sources ELSE Append(sources, "msys2")

\* lines 942-953: the ordered channel list of the variant
channel_sources ==
    additional_channels \o
        WithMsys2(IF cbc_cfg_channel_sources(cbcs[driver.icbc]).present
                  THEN Flatten(cbc_cfg_channel_sources(cbcs[driver.icbc]).sources)
                  ELSE <<"conda-forge", "defaults", "msys2">>)

\* build_solver made of the variant file's channels only
build_solver_NoAdditional ==
    [channels |-> WithMsys2(<<"conda-forge", "defaults">>),
     platform |-> BuildSolverPlatform]

\* line 1011: solver = _mamba_factory(tuple(channel_sources), ...)
solver == [channels |-> channel_sources, platform |-> SolverPlatform]

\* lines 1012-1015: build_solver = _mamba_factory(tuple(channel_sources), ...)
build_solver == [channels |-> channel_sources, platform |-> BuildSolverPlatform]

\* one solver call, as the log keeps it: the handle that was used, what
\* was asked and what came back
SolverCall(phase, r) ==
    [cbc |-> driver.icbc, out |-> engine.imeta, phase |-> phase,
     platform |-> r.platform, specs |-> r.specs, ok |-> r.success,
     err |-> r.err, rx |-> r.run_exports,
     channels |-> IF phase = "build" THEN build_solver.channels ELSE solver.channels]

\* Fold with the last phase's flag in place of the conjunction
Fold_LastWins(e, r) ==
    [e EXCEPT !.solvable = r.success,
              !.errors = IF r.success THEN e.errors ELSE Append(e.errors, r.err)]

\* Fold that drops the solver's error
Fold_NoError(e, r) == [e EXCEPT !.solvable = e.solvable /\ r.success]

\* Fold that records the first error only
Fold_FirstErrorOnly(e, r) ==
    [e EXCEPT !.solvable = e.solvable /\ r.success,
              !.errors = IF r.success \/ e.errors # <<>> THEN e.errors
                         ELSE Append(e.errors, r.err)]

\* solvable = solvable and _solvable; if _err is not None: errors.append(_err)
Fold(e, r) ==
    [e EXCEPT !.solvable = e.solvable /\ r.success,
              !.errors = IF r.success THEN e.errors ELSE Append(e.errors, r.err)]

(***************************************************************************)
(* The propagation of run exports between the requirement sets.             *)
(***************************************************************************)
\* list(set(req) | more): the union, in one of the orders a set may have
MergeInto(req, more) == ListsOf(Range(req) \cup more)

\* HostAfterBuild that merges the weak exports, not the strong ones, into
\* host when build and host are not the same
HostAfterBuild_Weak(m, host_req, build_rx) ==
    IF m.is_cross THEN MergeInto(host_req, build_rx.strong)
    ELSE IF m.noarch THEN {host_req}
    ELSE IF m.build_is_host THEN {host_req}
    ELSE MergeInto(host_req, build_rx.weak)

\* HostAfterBuild that merges nothing into host when cross-compiling
HostAfterBuild_NoCross(m, host_req, build_rx) ==
    IF m.is_cross THEN {host_req}
    ELSE IF m.noarch THEN {host_req}
    ELSE IF m.build_is_host THEN {host_req}
    ELSE MergeInto(host_req, build_rx.strong)

\* lines 1040-1053: host_req after the build phase
HostAfterBuild(m, host_req, build_rx) ==
    IF m.is_cross THEN MergeInto(host_req, build_rx.strong)
    ELSE IF m.noarch THEN {host_req}
    ELSE IF m.build_is_host THEN {host_req}
    ELSE MergeInto(host_req, build_rx.strong)

\* RunAfterBuild that forgets the strong exports of a platform-dependent
\* output whose build is not its host
RunAfterBuild_NoStrong(m, run_req, build_rx) ==
    IF m.is_cross
    THEN (IF ~m.noarch THEN MergeInto(run_req, build_rx.strong) ELSE {run_req})
    ELSE IF m.noarch
    THEN (IF m.build_is_host THEN MergeInto(run_req, build_rx.noarch) ELSE {run_req})
    ELSE IF m.build_is_host
    THEN MergeInto(run_req, build_rx.strong \cup build_rx.weak)
    ELSE {run_req}

\* lines 1040-1053: run_req after the build phase
RunAfterBuild(m, run_req, build_rx) ==
    IF m.is_cross
    THEN (IF ~m.noarch THEN MergeInto(run_req, build_rx.strong) ELSE {run_req})
    ELSE IF m.noarch
    THEN (IF m.build_is_host THEN MergeInto(run_req, build_rx.noarch) ELSE {run_req})
    ELSE IF m.build_is_host
    THEN MergeInto(run_req, build_rx.strong \cup build_rx.weak)
    ELSE MergeInto(run_req, build_rx.strong)

\* RunAfterHost that merges the weak exports for a noarch output too
RunAfterHost_Weak(m, run_req, host_rx) ==
    IF m.is_cross THEN MergeInto(run_req, host_rx.weak) ELSE {run_req}

\* lines 1067-1071: run_req after the host phase
RunAfterHost(m, run_req, host_rx) ==
    IF m.is_cross
    THEN (IF m.noarch THEN MergeInto(run_req, host_rx.noarch)
          ELSE MergeInto(run_req, host_rx.weak))
    ELSE {run_req}

(***************************************************************************)
(* Lines 1028-1053: the build phase, solved with build_solver.              *)
(***************************************************************************)
BuildPhase ==
    /\ CheckRunning
    /\ wpc = "build"
    /\ IF engine.build_req = <<>>
       THEN /\ wpc' = "host"
            /\ UNCHANGED <<engine, cache, calls, exc>>
       ELSE LET m == CurrentOutput
                r == Solve(BuildSolverPlatform, _clean_reqs(engine.build_req, Outnames),
                           TRUE, m.ign_runex_from, m.ign_runex, cache[Proc])
            IN  IF r.raised
                THEN /\ Raise(r.exc)
                     /\ cache' = [cache EXCEPT ![Proc] = r.cache]
                     /\ UNCHANGED <<engine, calls>>
                ELSE /\ \E h \in HostAfterBuild(m, engine.host_req, r.run_exports) :
                        \E rn \in RunAfterBuild(m, engine.run_req, r.run_exports) :
                            engine' = [Fold(engine, r) EXCEPT !.build_req = r.solution,
                                                              !.host_req = h,
                                                              !.run_req = rn]
                     /\ cache' = [cache EXCEPT ![Proc] = r.cache]
                     /\ calls' = Append(calls, SolverCall("build", r))
                     /\ wpc' = "host"
                     /\ UNCHANGED exc
    /\ UNCHANGED <<inputs, callerVars, osVars, pipe, worker, checkRes, driver, hist>>

(***************************************************************************)
(* Lines 1055-1071: the host phase, solved with solver.                     *)
(***************************************************************************)
HostPhase ==
    /\ CheckRunning
    /\ wpc = "host"
    /\ IF engine.host_req = <<>>
       THEN /\ wpc' = "run"
            /\ UNCHANGED <<engine, cache, calls, exc>>
       ELSE LET m == CurrentOutput
                r == Solve(SolverPlatform, _clean_reqs(engine.host_req, Outnames),
                           TRUE, m.ign_runex_from, m.ign_runex, cache[Proc])
            IN  IF r.raised
                THEN /\ Raise(r.exc)
                     /\ cache' = [cache EXCEPT ![Proc] = r.cache]
                     /\ UNCHANGED <<engine, calls>>
                ELSE /\ \E rn \in RunAfterHost(m, engine.run_req, r.run_exports) :
                            engine' = [Fold(engine, r) EXCEPT !.host_req = r.solution,
                                                              !.run_req = rn]
                     /\ cache' = [cache EXCEPT ![Proc] = r.cache]
                     /\ calls' = Append(calls, SolverCall("host", r))
                     /\ wpc' = "run"
                     /\ UNCHANGED exc
    /\ UNCHANGED <<inputs, callerVars, osVars, pipe, worker, checkRes, driver, hist>>

\* RunPhase without the test of line 1073: an empty requirement list is
\* sent to the solver too
RunPhase_SolvesEmpty ==
    /\ CheckRunning
    /\ wpc = "run"
    /\ LET m == CurrentOutput
           pinned == apply_pins(engine.run_req, engine.host_req, engine.build_req,
                                Outnames, m)
           run_req == _clean_reqs(pinned, Outnames)
           r == Solve(SolverPlatform, run_req, FALSE, <<>>, <<>>, cache[Proc])
       IN  IF r.raised
           THEN /\ Raise(r.exc)
                /\ UNCHANGED <<engine, calls>>
           ELSE /\ engine' = [Fold(engine, r) EXCEPT !.run_req = run_req]
                /\ calls' = Append(calls, SolverCall("run", r))
                /\ wpc' = "test"
                /\ UNCHANGED exc
    /\ UNCHANGED <<inputs, callerVars, osVars, pipe, worker, cache, checkRes, driver, hist>>

(***************************************************************************)
(* Lines 1073-1079: the run phase: the pins are applied, then solver.       *)
(***************************************************************************)
RunPhase ==
    /\ CheckRunning
    /\ wpc = "run"
    /\ IF engine.run_req = <<>>
       THEN /\ wpc' = "test"
            /\ UNCHANGED <<engine, calls, exc>>
       ELSE LET m == CurrentOutput
                pinned == apply_pins(engine.run_req, engine.host_req, engine.build_req,
                                     Outnames, m)
                run_req == _clean_reqs(pinned, Outnames)
                r == Solve(SolverPlatform, run_req, FALSE, <<>>, <<>>, cache[Proc])
            IN  IF r.raised
                THEN /\ Raise(r.exc)
                     /\ UNCHANGED <<engine, calls>>
                ELSE /\ engine' = [Fold(engine, r) EXCEPT !.run_req = run_req]
                     /\ calls' = Append(calls, SolverCall("run", r))
                     /\ wpc' = "test"
                     /\ UNCHANGED exc
    /\ UNCHANGED <<inputs, callerVars, osVars, pipe, worker, cache, checkRes, driver, hist>>

\* TestReqs without the run requirements
TestReqs_Declared(m, run_req) == m.test_requires \o m.test_requirements

\* lines 1081-1085: tst_req
TestReqs(m, run_req) == m.test_requires \o m.test_requirements \o run_req

(***************************************************************************)
(* Lines 1081-1091: the test phase; then the next output.                   *)
(***************************************************************************)
TestPhase ==
    /\ CheckRunning
    /\ wpc = "test"
    /\ LET m == CurrentOutput
           tst_req == TestReqs(m, engine.run_req)
       IN  IF tst_req = <<>>
           THEN /\ engine' = [engine EXCEPT !.imeta = @ + 1]
                /\ wpc' = "output"
                /\ UNCHANGED <<calls, exc>>
           ELSE LET r == Solve(SolverPlatform, _clean_reqs(tst_req, Outnames),
                               FALSE, <<>>, <<>>, cache[Proc])
                IN  IF r.raised
                    THEN /\ Raise(r.exc)
                         /\ UNCHANGED <<engine, calls>>
                    ELSE /\ engine' = [Fold(engine, r) EXCEPT !.imeta = @ + 1]
                         /\ calls' = Append(calls, SolverCall("test", r))
                         /\ wpc' = "output"
                         /\ UNCHANGED exc
    /\ UNCHANGED <<inputs, callerVars, osVars, pipe, worker, cache, checkRes, driver, hist>>

(***************************************************************************)
(* _func, lines 709-721: the worker sends what the check returned, or the   *)
(* exception it raised, closes its end of the pipe and ends.                *)
(***************************************************************************)
FuncSend ==
    /\ timeout # 0
    /\ worker = "running"
    /\ wpc \in {"ret", "exc"}
    /\ pipe' = Append(pipe, IF wpc = "exc" THEN [kind |-> "exception", val |-> exc]
                            ELSE [kind |-> "result", val |-> checkRes])
    /\ worker' = "exited"
    /\ wpc' = "done"
    \* whether the exit of a worker runs its atexit handlers depends on the
    \* interpreter and the start method, and on the parent's terminate()
    \* not coming first
    /\ \E ran \in BOOLEAN :
          tmpdirs' = [tmpdirs EXCEPT !.worker = IF ran THEN AtExit(@) ELSE @]
    /\ conns' = [conns EXCEPT !.child_conn = "closed"]
    /\ UNCHANGED <<inputs, callerVars, chans, environ, cache, exc, checkRes, driver, engine,
                   calls, hist>>

(***************************************************************************)
(* The worker process dies before it has sent anything: a signal, a crash   *)
(* of the solver library, an exit that is no Exception.  The parent keeps   *)
(* its own handle of child_conn open (line 765: it never closes it), so     *)
(* parent_conn sees no end of file.                                         *)
(***************************************************************************)
\* the lookup of nm's run exports gets to the artifact download
UsesDownload(nm) ==
    /\ ~FirstSource(nm).raised /\ ~FirstSource(nm).val.found
    /\ net.channeldata = "ok" /\ ChanneldataHasExports(nm)
    /\ net.service = "ok" /\ ~ArtifactInfo(nm).found

\* the worker is in a phase whose solve downloads an artifact into a
\* tempfile.TemporaryDirectory (line 295)
MayBeDownloading ==
    /\ worker = "running" /\ wpc \in {"build", "host"}
    /\ \E r \in Range(IF wpc = "build" THEN engine.build_req ELSE engine.host_req) :
          UsesDownload(r.name) /\ r.name \notin DOMAIN cache.worker

\* the directories after the worker was killed: no handler and no context
\* manager of the worker runs
KilledDirs(dirs) ==
    {dirs} \cup (IF MayBeDownloading THEN {[dirs EXCEPT !.extract = TRUE]} ELSE {})

WorkerCrash ==
    /\ timeout # 0
    /\ worker = "running"
    /\ wpc \notin {"done", "off"}
    /\ pc = "poll"
    /\ worker' = "crashed"
    /\ wpc' = "off"
    /\ exc' = NoExc
    /\ checkRes' = NoRes
    /\ driver' = NoDriver
    /\ engine' = NoEngine
    /\ calls' = <<>>
    /\ hist' = NoHist
    /\ tmpdirs' \in KilledDirs(tmpdirs)
    /\ conns' = [conns EXCEPT !.child_conn = "closed"]
    /\ UNCHANGED <<inputs, callerVars, chans, environ, pipe, cache>>

\* Received with the verdict of an exception not forced to false
Received_ErrorKeepsTrue(msg) ==
    IF msg.kind = "exception"
    THEN ResultTuple(TRUE, <<Repr(msg.val)>>, EmptyDict)
    ELSE msg.val

\* Received that loses the per-variant map of a result
Received_DropsVariants(msg) ==
    IF msg.kind = "exception"
    THEN ResultTuple(FALSE, <<Repr(msg.val)>>, EmptyDict)
    ELSE ResultTuple(msg.val.solvable, msg.val.errors, EmptyDict)

\* lines 779-784: what the parent makes of the message it received
Received(msg) ==
    IF msg.kind = "exception"
    THEN ResultTuple(FALSE, <<Repr(msg.val)>>, EmptyDict)
    ELSE msg.val

\* TimeoutResult that fails closed
TimeoutResult_FailClosed == ResultTuple(FALSE, <<"timeout">>, EmptyDict)

\* lines 787-791: the result of a timeout
TimeoutResult == ResultTuple(TRUE, <<>>, EmptyDict)

(***************************************************************************)
(* is_recipe_solvable, lines 777-784 and 793: poll finds the message.       *)
(***************************************************************************)
PollReady ==
    /\ pc = "poll"
    /\ pipe # <<>>
    /\ res' = Received(Head(pipe))
    /\ received' = Head(pipe).kind
    /\ pipe' = Tail(pipe)
    /\ pc' = "teardown"
    /\ UNCHANGED <<inputs, osVars, entry, ncall, timeout, prev, worker, cache, wpc, exc, checkRes,
                   driver, engine, calls, hist>>

(***************************************************************************)
(* is_recipe_solvable, lines 777 and 785-793: the budget runs out with      *)
(* nothing on the pipe.                                                     *)
(***************************************************************************)
PollTimeout ==
    /\ pc = "poll"
    /\ pipe = <<>>
    /\ res' = TimeoutResult
    /\ received' = "timeout"
    /\ pc' = "teardown"
    /\ UNCHANGED <<inputs, osVars, entry, ncall, timeout, prev, pipe, worker, cache, wpc, exc,
                   checkRes, driver, engine, calls, hist>>

\* Teardown that closes parent_conn and leaves the worker alone
Teardown_NoKill ==
    /\ pc = "teardown"
    /\ pc' = "returned"
    /\ worker' = worker
    /\ conns' = [conns EXCEPT !.parent_conn = "closed"]
    /\ pipe' = <<>>
    /\ wpc' = "off"
    /\ IF received = "timeout"
       THEN /\ exc' = NoExc
            /\ checkRes' = NoRes
            /\ driver' = NoDriver
            /\ engine' = NoEngine
            /\ calls' = <<>>
            /\ hist' = NoHist
       ELSE UNCHANGED <<exc, checkRes, driver, engine, calls, hist>>
    /\ UNCHANGED tmpdirs
    /\ UNCHANGED <<inputs, chans, environ, entry, ncall, timeout, res, received, prev, cache>>

(***************************************************************************)
(* is_recipe_solvable, lines 795-801 and 810: the worker is terminated and  *)
(* killed, and res is returned.  What a worker that had not finished held   *)
(* goes with it.                                                            *)
(***************************************************************************)
Teardown ==
    /\ pc = "teardown"
    /\ pc' = "returned"
    /\ worker' = IF worker = "running" THEN "killed" ELSE worker
    /\ conns' = [parent_conn |-> "closed", child_conn |-> "closed"]
    /\ pipe' = <<>>
    /\ wpc' = "off"
    /\ IF received = "timeout"
       THEN /\ exc' = NoExc
            /\ checkRes' = NoRes
            /\ driver' = NoDriver
            /\ engine' = NoEngine
            /\ calls' = <<>>
            /\ hist' = NoHist
       ELSE UNCHANGED <<exc, checkRes, driver, engine, calls, hist>>
    /\ IF worker = "running" THEN tmpdirs' \in KilledDirs(tmpdirs) ELSE UNCHANGED tmpdirs
    /\ UNCHANGED <<inputs, chans, environ, entry, ncall, timeout, res, received, prev, cache>>

(***************************************************************************)
(* is_recipe_solvable, lines 802-810: the in-process check ends: its        *)
(* result is returned, or its exception goes on to the caller.              *)
(***************************************************************************)
InprocEnd ==
    /\ timeout = 0
    /\ pc = "inproc"
    /\ wpc \in {"ret", "exc"}
    /\ IF wpc = "ret"
       THEN /\ res' = checkRes
            /\ pc' = "returned"
       ELSE /\ pc' = "raised"
            /\ UNCHANGED res
    /\ wpc' = "off"
    /\ UNCHANGED <<inputs, osVars, entry, ncall, timeout, received, prev, pipe, worker, cache, exc,
                   checkRes, driver, engine, calls, hist>>

(***************************************************************************)
(* The caller's process ends: the atexit handler that                       *)
(* virtual_package_repodata registered (lines 615-620) runs.                *)
(***************************************************************************)
ProcessExit ==
    /\ pc \in {"returned", "raised"}
    /\ pc' = "exited"
    /\ tmpdirs' = [tmpdirs EXCEPT !.parent = AtExit(@)]
    /\ UNCHANGED <<inputs, chans, environ, conns, entry, ncall, timeout, res, received, prev, pipe,
                   worker, cache, wpc, exc, checkRes, driver, engine, calls, hist>>

Next ==
    \/ \E t \in Timeouts : Call(t)
    \/ CheckConfig
    \/ VariantLoop
    \/ Render
    \/ OutputLoop
    \/ BuildPhase
    \/ HostPhase
    \/ RunPhase
    \/ TestPhase
    \/ FuncSend
    \/ WorkerCrash
    \/ PollReady
    \/ PollTimeout
    \/ Teardown
    \/ InprocEnd
    \/ ProcessExit

Spec == Init /\ [][Next]_vars

(***************************************************************************)
(* _munge_req_star on its own: the function applied to a version string,   *)
(* and again to what it returned.                                           *)
(***************************************************************************)
\* the characters of the version strings: a digit, the dot, the wildcard,
\* comparator characters, the blank and the two separators
VersionChars == {"1", ".", "*", "=", ">", " ", ",", "|"}

VersionStrings == UNION {[1..n -> VersionChars] : n \in 0..MaxLen}

MungeInit ==
    /\ spec_str \in VersionStrings
    /\ munged = <<>>
    /\ cbcs = <<>>
    /\ recipe = [exists |-> FALSE, renders |-> FALSE, metas |-> <<>>]
    /\ net = NetOk
    /\ ncall = 0
    /\ timeout = 0
    /\ pc = "idle"
    /\ res = NoRes
    /\ received = "none"
    /\ prev = NoPrev
    /\ pipe = <<>>
    /\ worker = "none"
    /\ cache = [parent |-> EmptyDict, worker |-> EmptyDict]
    /\ wpc = "off"
    /\ exc = NoExc
    /\ checkRes = NoRes
    /\ driver = NoDriver
    /\ engine = NoEngine
    /\ calls = <<>>
    /\ hist = NoHist
    /\ runner_temp = FALSE
    /\ chans = <<>>
    /\ environ = [parent |-> "unset", worker |-> "unset"]
    /\ tmpdirs = NoTmpdirs
    /\ entry = [chans |-> <<>>, glibc |-> "unset"]
    /\ conns = NoConns

\* _munge_req_star(spec_str)
MungeOnce ==
    /\ munged = <<>>
    /\ munged' = <<_munge_req_star(spec_str)>>
    /\ UNCHANGED <<cbcs, recipe, net, runner_temp, spec_str, callerVars, osVars, pipe,
                   worker, cache, wpc, exc, checkRes, driver, engine, calls, hist>>

\* _munge_req_star(_munge_req_star(spec_str))
MungeAgain ==
    /\ Len(munged) = 1
    /\ munged' = Append(munged, _munge_req_star(munged[1]))
    /\ UNCHANGED <<cbcs, recipe, net, runner_temp, spec_str, callerVars, osVars, pipe,
                   worker, cache, wpc, exc, checkRes, driver, engine, calls, hist>>

MungeNext == MungeOnce \/ MungeAgain

MungeSpec == MungeInit /\ [][MungeNext]_vars

(***************************************************************************)
(* The claims.                                                              *)
(***************************************************************************)
\* the call has returned what the check itself returned
Completed == pc = "returned" /\ (timeout = 0 \/ received = "result")

\* the solver calls of variant i, output k
CallsOf(i, k) == {c \in Range(calls) : c.cbc = i /\ c.out = k}

\* C1: with a timeout, when nothing arrives on the pipe within the budget
\* the call's result is exactly (True, [], {}), wherever the worker was.
C1_TimeoutFailsOpen ==
    (timeout # 0 /\ received = "timeout" /\ pc \in {"teardown", "returned"})
        => res = [solvable |-> TRUE, errors |-> <<>>, solvable_by_variant |-> EmptyDict]

\* the budget ran out while the worker was solving a run phase
C1_Witness ==
    /\ timeout # 0 /\ pc = "teardown" /\ received = "timeout"
    /\ worker = "running" /\ wpc = "run" /\ calls # <<>>
    /\ res = [solvable |-> TRUE, errors |-> <<>>, solvable_by_variant |-> EmptyDict]

\* C2: when the worker's message is an exception the check raised, the
\* call's result is (False, [repr of the exception], {}).
C2_WorkerErrorFailsClosed ==
    (timeout # 0 /\ received = "exception" /\ pc \in {"teardown", "returned"})
        => /\ res.solvable = FALSE
           /\ Len(res.errors) = 1
           /\ res.errors[1] = Repr(exc)
           /\ res.solvable_by_variant = EmptyDict

\* the worker's check raised IndexError and the call has returned
C2_Witness ==
    /\ timeout # 0 /\ pc = "returned" /\ received = "exception"
    /\ exc.type = "IndexError"
    /\ res.solvable = FALSE /\ Len(res.errors) = 1

\* C3: a worker that dies without sending anything gives a result with
\* verdict False and a single error string.
C3_CrashFailsClosed ==
    (timeout # 0 /\ worker = "crashed" /\ pc = "returned")
        => (res.solvable = FALSE /\ Len(res.errors) = 1)

\* C4: the result of a call with a timeout whose worker finished without
\* raising is the result of the in-process call on the same inputs (the
\* next call of the same caller, which starts from the same process state).
C4_SameAsInProcess ==
    (ncall >= 2 /\ prev.timeout # 0 /\ prev.received = "result" /\ timeout = 0
     /\ pc \in {"returned", "raised"})
        => (pc = "returned" /\ res = prev.res)

\* both calls returned a result with errors and a per-variant map
C4_Witness ==
    /\ ncall >= 2 /\ prev.timeout # 0 /\ prev.received = "result" /\ timeout = 0
    /\ pc = "returned" /\ res = prev.res
    /\ res.errors # <<>> /\ DOMAIN res.solvable_by_variant # {}

\* C5: a feedstock with no variant file, or with no recipe/meta.yaml, makes
\* the check return (False, [one error], {}); nothing is rendered and no
\* solver handle is asked for or used.
C5_ConfigErrorBypassesSolver ==
    (Len(cbcs) = 0 \/ ~recipe.exists)
        => /\ wpc # "exc"
           /\ hist.renders = 0 /\ hist.factories = 0 /\ calls = <<>>
           /\ wpc = "ret" =>
                checkRes = [solvable |-> FALSE,
                            errors |-> <<IF Len(cbcs) = 0 THEN NoCbcError
                                         ELSE NoMetaError>>,
                            solvable_by_variant |-> EmptyDict]
           /\ Completed => res = checkRes

\* the variant files are there, the recipe file is not, the check returned
C5_Witness ==
    /\ Len(cbcs) > 0 /\ ~recipe.exists /\ Completed
    /\ res.errors = <<NoMetaError>>

\* C6: the driver never raises, and the call never raises to its caller.
C6_NeverRaises == wpc # "exc" /\ pc # "raised"

\* the shape of a completed check's result r
C7_Shape(r) ==
    /\ DOMAIN r.solvable_by_variant = {CbcName(cbcs[i]) : i \in DOMAIN cbcs}
    /\ Cardinality(DOMAIN r.solvable_by_variant) = Len(cbcs)
    /\ \A i \in DOMAIN cbcs :
          r.solvable_by_variant[CbcName(cbcs[i])]
              = (\A c \in Range(calls) : c.cbc = i => c.ok)
    /\ r.solvable = (\A k \in DOMAIN r.solvable_by_variant : r.solvable_by_variant[k])

\* C7: when the check completes, solvable_by_variant has one entry per
\* variant file, keyed by its base name without extension, whose value is
\* the conjunction over the solver calls made for that variant, and the
\* verdict is the conjunction of the entries.
C7_VerdictIsConjunction ==
    (Len(cbcs) >= 1 /\ recipe.exists)
        => /\ wpc = "ret" => C7_Shape(checkRes)
           /\ Completed => C7_Shape(res)

\* two variants, one solvable and one not
C7_Witness ==
    /\ Completed /\ Len(cbcs) = 2
    /\ \E k1, k2 \in DOMAIN res.solvable_by_variant :
          res.solvable_by_variant[k1] /\ ~res.solvable_by_variant[k2]
    /\ ~res.solvable

\* C8: in every returned tuple the error list is empty exactly when the
\* verdict is True.
C8_ErrorsIffNotSolvable ==
    pc = "returned" => ((res.errors = <<>>) <=> res.solvable)

\* a completed check with two solver errors
C8_Witness ==
    /\ Completed /\ timeout # 0
    /\ ~res.solvable /\ Len(res.errors) >= 2 /\ DOMAIN res.solvable_by_variant # {}

\* one variant, one output that declares run requirements only, whose run
\* phase the solver could not solve
C9_Case ==
    /\ Completed
    /\ Len(cbcs) = 1 /\ recipe.renders /\ Len(recipe.metas) = 1
    /\ recipe.metas[1].build = <<>> /\ recipe.metas[1].host = <<>>
    /\ recipe.metas[1].test_requires = <<>> /\ recipe.metas[1].test_requirements = <<>>
    /\ recipe.metas[1].run # <<>>
    /\ \E c \in Range(calls) : c.phase = "run" /\ ~c.ok

\* C9 as stated: the error list has exactly one entry.
C9_OneError ==
    C9_Case =>
        /\ res.solvable = FALSE
        /\ res.solvable_by_variant = [k \in {CbcName(cbcs[1])} |-> FALSE]
        /\ Len(res.errors) = 1
        /\ \E c \in Range(calls) :
              c.phase = "run" /\ res.errors[1] = CbcName(cbcs[1]) \o ": " \o c.err

\* C9 amended: the error list has two entries, the run phase's and the test
\* phase's, which solves the run requirements again.
C9_TwoErrors ==
    C9_Case =>
        /\ res.solvable = FALSE
        /\ res.solvable_by_variant = [k \in {CbcName(cbcs[1])} |-> FALSE]
        /\ Len(res.errors) = 2
        /\ \E c \in Range(calls) :
              c.phase = "run" /\ res.errors[1] = CbcName(cbcs[1]) \o ": " \o c.err
        /\ \E c \in Range(calls) :
              c.phase = "test" /\ res.errors[2] = CbcName(cbcs[1]) \o ": " \o c.err

\* the run requirement is "bad" and the result holds its error twice
C9_Witness ==
    /\ C9_Case
    /\ recipe.metas[1].run = <<P("bad")>>
    /\ res.errors = <<"linux_64_: nothing provides bad", "linux_64_: nothing provides bad">>

\* the run phase of the current output is over
RunPhaseDone == wpc = "test" /\ CheckRunning

\* a requirement for package nm was sent to the solver in the run phase of
\* the current output
RunPhaseSent(nm) ==
    \E c \in CallsOf(driver.icbc, engine.imeta) :
        c.phase = "run" /\ \E s \in Range(c.specs) : s.name = nm

\* C10 as stated: non-cross-compiling noarch output, the build phase
\* resolved a requested package that exports strong bar: bar is in the
\* run phase's requirement set.
C10_NoarchStrongReachesRun ==
    (/\ RunPhaseDone
     /\ ~CurrentOutput.is_cross /\ CurrentOutput.noarch
     /\ \E b \in CallsOf(driver.icbc, engine.imeta) :
           /\ b.phase = "build" /\ b.ok
           /\ \E s \in Range(b.specs) : P("bar") \in RunExportData(s.name).strong)
        => RunPhaseSent("bar")

\* C10 amended: non-cross-compiling output that is not noarch: every strong
\* run export the build phase's solve returned is in the run phase's
\* requirement set, unless it names one of the recipe's own outputs or a
\* deny-listed package.
C10_StrongReachesRun ==
    (RunPhaseDone /\ ~CurrentOutput.is_cross /\ ~CurrentOutput.noarch)
        => \A b \in CallsOf(driver.icbc, engine.imeta) :
              b.phase = "build" =>
                 \A tok \in b.rx.strong :
                    \/ \E nm \in Outnames \cup problem_reqs : FirstTokenIs(tok, nm)
                    \/ RunPhaseSent(tok.name)

\* the recipe declared no run requirement and bar was sent in the run phase
C10_Witness ==
    /\ RunPhaseDone /\ ~CurrentOutput.is_cross /\ ~CurrentOutput.noarch
    /\ CurrentOutput.run = <<>>
    /\ \E b \in CallsOf(driver.icbc, engine.imeta) :
          b.phase = "build" /\ b.ok /\ P("bar") \in b.rx.strong
    /\ RunPhaseSent("bar")

\* the place of a phase in the order of the phases
PhaseRank(ph) ==
    CASE ph = "build" -> 1 [] ph = "host" -> 2 [] ph = "run" -> 3 [] ph = "test" -> 4

\* the solver calls of the log are in the order of the variants, of the
\* outputs and, for one output, strictly of the phases
CallsInOrder ==
    \A i, j \in DOMAIN calls :
        i < j =>
            \/ calls[i].cbc < calls[j].cbc
            \/ calls[i].cbc = calls[j].cbc /\ calls[i].out < calls[j].out
            \/ /\ calls[i].cbc = calls[j].cbc /\ calls[i].out = calls[j].out
               /\ PhaseRank(calls[i].phase) < PhaseRank(calls[j].phase)

\* the requirement set of phase ph when the current output reaches it
PhaseReqs(ph) ==
    CASE ph = "build" -> engine.build_req
      [] ph = "host" -> engine.host_req
      [] ph = "run" -> engine.run_req
      [] ph = "test" -> TestReqs(CurrentOutput, engine.run_req)

\* where the check is after phase ph
AfterPhase(ph) ==
    CASE ph = "build" -> "host" [] ph = "host" -> "run" [] ph = "run" -> "test"
      [] ph = "test" -> "output"

\* a step that takes the check through phase ph: with an empty requirement
\* set no solver call is made and errors and flag stay; otherwise exactly
\* one call, of that phase, is made
PhaseStep(ph) ==
    (wpc = ph /\ wpc' = AfterPhase(ph)) =>
        IF PhaseReqs(ph) = <<>>
        THEN /\ calls' = calls
             /\ engine'.errors = engine.errors
             /\ engine'.solvable = engine.solvable
        ELSE /\ Len(calls') = Len(calls) + 1
             /\ SubSeq(calls', 1, Len(calls)) = calls
             /\ calls'[Len(calls')].phase = ph
             /\ calls'[Len(calls')].cbc = driver.icbc
             /\ calls'[Len(calls')].out = engine.imeta

\* C11: for every output the solver calls are made strictly in the order
\* build, host, run, test, one call at a time; a phase whose requirement set
\* is empty when it is reached makes no call, adds no error and leaves the
\* flag unchanged; so an output has at most four calls.
C11_PhasesInOrder ==
    [][/\ \A ph \in {"build", "host", "run", "test"} : PhaseStep(ph)
       /\ CallsInOrder'
       /\ \A i \in DOMAIN cbcs, k \in 1..MaxOutputs :
             Cardinality({j \in DOMAIN calls' : calls'[j].cbc = i /\ calls'[j].out = k}) <= 4]_vars

\* an output whose host phase was skipped (nothing declared, nothing
\* merged) and whose build, run and test phases were solved in that order
C11_Witness ==
    /\ wpc = "output" /\ CheckRunning /\ engine.imeta = 2
    /\ recipe.metas[1].host = <<>>
    /\ [j \in DOMAIN calls |-> calls[j].phase] = <<"build", "run", "test">>

\* the solver calls that failed, in order
FailedCalls == SelectSeq(calls, LAMBDA c : ~c.ok)

\* there is a solver call for variant i, output k, phase ph
Called(i, k, ph) == \E c \in CallsOf(i, k) : c.phase = ph

\* the result r of a check that ran to its end holds every failure once,
\* and every phase with declared requirements was sent to the solver (the
\* test phase when a test requirement is declared or a run requirement is
\* left after the run phase's cleaning)
AllSentAndRecorded(r) ==
    /\ r.errors = [j \in DOMAIN FailedCalls |->
                      CbcName(cbcs[FailedCalls[j].cbc]) \o ": " \o FailedCalls[j].err]
    /\ \A j \in DOMAIN FailedCalls :
          r.solvable_by_variant[CbcName(cbcs[FailedCalls[j].cbc])] = FALSE
    /\ \A i \in DOMAIN cbcs, k \in DOMAIN recipe.metas :
          LET m == recipe.metas[k]
          IN  /\ m.build # <<>> => Called(i, k, "build")
              /\ m.host # <<>> => Called(i, k, "host")
              /\ m.run # <<>> => Called(i, k, "run")
              /\ (\/ m.test_requires # <<>> \/ m.test_requirements # <<>>
                  \/ _filter_problematic_reqs(_clean_reqs(m.run,
                        {recipe.metas[n].name : n \in DOMAIN recipe.metas})) # <<>>)
                    => Called(i, k, "test")

\* C12: a solver failure does not stop the check: when the check returns,
\* every phase with requirements of every output of every variant was sent
\* to the solver, whatever failed before it, and every failure is one entry
\* of the error list and makes its variant's flag false.
C12_FailureDoesNotStop ==
    (Len(cbcs) >= 1 /\ recipe.exists)
        => /\ wpc = "ret" => AllSentAndRecorded(checkRes)
           /\ Completed => AllSentAndRecorded(res)

\* the first variant's build phase failed; its run phase and the second
\* variant were solved all the same
C12_Witness ==
    /\ Completed /\ Len(cbcs) = 2
    /\ calls # <<>> /\ calls[1].phase = "build" /\ ~calls[1].ok
    /\ Called(1, 1, "run") /\ Called(2, 1, "build") /\ Called(2, 1, "test")
    /\ Len(res.errors) >= 2

\* the names of the recipe's outputs
OwnNames == {recipe.metas[k].name : k \in DOMAIN recipe.metas}

\* C13: in no phase does the list passed to the solver hold a requirement
\* whose package name is one of the recipe's own output names, whatever
\* follows the name and however it is separated from it.
C13_SelfReferenceDropped ==
    \A j \in DOMAIN calls : \A sp \in Range(calls[j].specs) : sp.name \notin OwnNames

\* the specs of a solver call hold no requirement twice
NoDuplicates(specs) == \A a, b \in DOMAIN specs : a # b => specs[a] # specs[b]

\* C14: the list sent to the solver in the test phase holds every
\* requirement of the run phase, and no requirement twice.
C14_TestListNoDuplicates ==
    \A j \in DOMAIN calls :
        calls[j].phase = "test" =>
            /\ \A i \in DOMAIN calls :
                  (calls[i].phase = "run" /\ calls[i].cbc = calls[j].cbc
                   /\ calls[i].out = calls[j].out)
                     => Range(calls[i].specs) \subseteq Range(calls[j].specs)
            /\ NoDuplicates(calls[j].specs)

\* C15: a lookup of the run exports of a package that is in the cache
\* gives the bundle the first lookup gave: what the data sources hold,
\* with its weak, strong and noarch sets.
C15_CacheIdempotent ==
    \A p \in DOMAIN cache : \A nm \in DOMAIN cache[p] :
        cache[p][nm] = FetchRunExport(nm).val

\* the exceptions of the run-export data sources
SourceErrors == {"ZstdError", "ConnectionError"}

\* C16: a failure of a run-export data source is swallowed: the check
\* never ends with the exception of a data source, and the call never
\* hands one to its caller, as an exception or as an error result.
C16_SourceFailureSwallowed ==
    /\ wpc = "exc" => exc.type \notin SourceErrors
    /\ pc = "raised" => exc.type \notin SourceErrors
    /\ (pc = "returned" /\ received = "exception") => exc.type \notin SourceErrors

\* C17: when the call has returned or raised, the list the caller passed
\* as additional_channels has the elements it had at the call, and
\* CONDA_OVERRIDE_GLIBC has the value (set or unset) it had at the call.
C17_CallerEnvironmentKept ==
    pc \in {"returned", "raised"} =>
        (chans = entry.chans /\ environ.parent = entry.glibc)

\* C18: the index directory and the extraction directory a worker made
\* are gone when the worker has ended, no earlier worker left one behind,
\* and the index directory the caller's process made is gone when that
\* process has ended.
C18_TempDirsRemoved ==
    /\ worker \in {"exited", "crashed", "killed"} => (~tmpdirs.worker /\ ~tmpdirs.extract)
    /\ ~tmpdirs.leaked
    /\ pc = "exited" => ~tmpdirs.parent

\* the build phase of the current output is over and was solved
BuildPhaseDone(b) ==
    /\ wpc = "host" /\ CheckRunning
    /\ b \in CallsOf(driver.icbc, engine.imeta) /\ b.phase = "build" /\ b.ok

\* C19 as stated: platform-dependent output that does not cross-compile:
\* after a solved build phase its strong exports are in the run
\* requirements; its weak exports are in the run requirements when build
\* and host are the same, and otherwise in the host requirements.
C19_WeakToHostOtherwise ==
    \A b \in Range(calls) :
        (BuildPhaseDone(b) /\ ~CurrentOutput.is_cross /\ ~CurrentOutput.noarch) =>
            /\ b.rx.strong \subseteq Range(engine.run_req)
            /\ CurrentOutput.build_is_host => b.rx.weak \subseteq Range(engine.run_req)
            /\ ~CurrentOutput.build_is_host => b.rx.weak \subseteq Range(engine.host_req)

\* C19 amended: the run requirements are the declared ones and the strong
\* exports, and the weak ones too when build and host are the same;
\* otherwise the host requirements are the declared ones and the strong
\* exports, and the weak exports are merged nowhere.
C19_StrongToHostOtherwise ==
    \A b \in Range(calls) :
        (BuildPhaseDone(b) /\ ~CurrentOutput.is_cross /\ ~CurrentOutput.noarch) =>
            IF CurrentOutput.build_is_host
            THEN /\ Range(engine.run_req)
                      = Range(CurrentOutput.run) \cup b.rx.strong \cup b.rx.weak
                 /\ Range(engine.host_req) = Range(CurrentOutput.host)
            ELSE /\ Range(engine.run_req) = Range(CurrentOutput.run) \cup b.rx.strong
                 /\ Range(engine.host_req) = Range(CurrentOutput.host) \cup b.rx.strong

\* build and host differ, nothing but the build requirement cc is
\* declared: host and run got the strong bar, and nothing got the weak ccw
C19_Witness ==
    \E b \in Range(calls) :
        /\ BuildPhaseDone(b) /\ ~CurrentOutput.is_cross /\ ~CurrentOutput.noarch
        /\ ~CurrentOutput.build_is_host
        /\ CurrentOutput.host = <<>> /\ CurrentOutput.run = <<>>
        /\ b.rx.strong = {P("bar")} /\ b.rx.weak = {P("ccw")}
        /\ engine.host_req = <<P("bar")>> /\ engine.run_req = <<P("bar")>>

\* C20: cross-compiling output with a solved build phase: every strong
\* export of the build phase is in the host requirements when the host
\* phase is reached, so the host phase is solved whenever there is one,
\* whether or not the recipe declares host requirements.
C20_CrossStrongReachesHost ==
    \A b \in Range(calls) :
        /\ (BuildPhaseDone(b) /\ CurrentOutput.is_cross)
              => b.rx.strong \subseteq Range(engine.host_req)
        /\ (/\ CheckRunning /\ wpc \in {"run", "test"} /\ CurrentOutput.is_cross
            /\ b \in CallsOf(driver.icbc, engine.imeta) /\ b.phase = "build" /\ b.ok
            /\ b.rx.strong # {})
              => Called(driver.icbc, engine.imeta, "host")

\* no host requirement is declared and the host phase was solved with bar
C20_Witness ==
    /\ CheckRunning /\ wpc = "run" /\ CurrentOutput.is_cross
    /\ CurrentOutput.host = <<>>
    /\ \E b \in CallsOf(driver.icbc, engine.imeta) :
          b.phase = "build" /\ b.ok /\ P("bar") \in b.rx.strong
    /\ \E h \in CallsOf(driver.icbc, engine.imeta) :
          h.phase = "host" /\ h.specs = <<P("bar")>>

\* the bucket of the host phase's exports that goes into run
HostBucket(m, rx) ==
    IF ~m.is_cross THEN {} ELSE IF m.noarch THEN rx.noarch ELSE rx.weak

\* C21: a step through a solved host phase: the run requirements become
\* the ones before it and, for a cross-compiling output, the host phase's
\* noarch exports (noarch output) or weak exports (platform-dependent
\* output), nothing else; without cross-compiling they stay as they are.
C21_HostExportsIntoRun ==
    [][(wpc = "host" /\ wpc' = "run" /\ engine.host_req # <<>>) =>
          /\ calls'[Len(calls')].phase = "host"
          /\ Range(engine'.run_req)
                = Range(engine.run_req)
                    \cup HostBucket(CurrentOutput, calls'[Len(calls')].rx)
          /\ ~CurrentOutput.is_cross => engine'.run_req = engine.run_req]_vars

\* a cross-compiling noarch output whose host phase solved lib: run got
\* lib's noarch export libn and not its weak export libw
C21_Witness ==
    /\ CheckRunning /\ wpc = "run"
    /\ CurrentOutput.is_cross /\ CurrentOutput.noarch
    /\ \E h \in CallsOf(driver.icbc, engine.imeta) :
          /\ h.phase = "host" /\ h.ok
          /\ P("libn") \in h.rx.noarch /\ P("libw") \in h.rx.weak
    /\ P("libn") \in Range(engine.run_req)
    /\ P("libw") \notin Range(engine.run_req)

\* the run phase of the current output was solved: build_req and host_req
\* are what the earlier phases resolved, run_req is what was sent
RunPhaseSolved ==
    /\ RunPhaseDone
    /\ \E c \in CallsOf(driver.icbc, engine.imeta) : c.phase = "run"

\* the run requirement r carries the version resolved for its package
IsPinned(r) == r.sep = " " /\ r.ver = PinExpression(IndexVersion)

\* the run requirements that ask for a pin are pinned exactly when their
\* package is in the resolved set src
PinnedFrom(src) ==
    \A r \in Range(engine.run_req) :
        r.name \in CurrentOutput.pin_run_as_build =>
            (IsPinned(r) <=> \E d \in Range(src) : d.name = r.name)

\* a requirement whose pin cannot be applied is sent as it was declared
FailedPinKept ==
    \A i \in DOMAIN CurrentOutput.run :
        (CurrentOutput.run[i].name = "numpy"
         /\ ~(\E d \in Range(engine.build_req \o engine.host_req) : d.name = "numpy"))
            => CurrentOutput.run[i] \in Range(engine.run_req)

\* C22 as stated: for an output that does not cross-compile the versions
\* of the pins are those the host phase resolved; a requirement whose pin
\* fails is kept as declared and the phase is solved.
C22_PinsFromHostWhenNotCross ==
    (RunPhaseSolved /\ ~CurrentOutput.is_cross)
        => (PinnedFrom(engine.host_req) /\ FailedPinKept)

\* C22 amended: the versions are those the host phase resolved when the
\* output cross-compiles and those the build phase resolved when it does
\* not; a requirement whose pin fails is kept as declared and the phase is
\* solved.
C22_PinsFromBuildWhenNotCross ==
    /\ RunPhaseSolved =>
          /\ PinnedFrom(IF CurrentOutput.is_cross THEN engine.host_req
                        ELSE engine.build_req)
          /\ FailedPinKept
    /\ (RunPhaseDone /\ CurrentOutput.run # <<>>) => RunPhaseSolved

\* no cross-compiling, lib resolved in the build phase only: lib is pinned
C22_Witness ==
    /\ RunPhaseSolved /\ ~CurrentOutput.is_cross
    /\ CurrentOutput.pin_run_as_build = {"lib"}
    /\ CurrentOutput.host = <<>>
    /\ \E d \in Range(engine.build_req) : d.name = "lib"
    /\ engine.run_req = <<[name |-> "lib", sep |-> " ",
                           ver |-> <<">", "=", "1", ".", "0">>, build |-> ""]>>

\* the exports a solve of specs should give for output m: the union, over
\* the requested packages not in ignore_run_exports_from, of what the data
\* sources hold for the package, less the tokens of ignore_run_exports
ExpectedBucket(m, specs, key) ==
    {v \in UNION {FetchRunExport(nm).val[key] :
                    nm \in {s.name : s \in Range(specs)}
                           \ {s.name : s \in Range(m.ign_runex_from)}} :
        ~(\E s \in Range(m.ign_runex) : TextIs(v, s.name))}

\* C23: a successful solve that asks for run exports returns, in each
\* bucket, the union of the exports of the requested packages outside
\* ignore_run_exports_from less this call's ignore_run_exports, whatever
\* the earlier solve calls were given.
C23_RunExportsOfThisCall ==
    \A i \in DOMAIN calls :
        (calls[i].ok /\ calls[i].phase \in {"build", "host"}) =>
            \A key \in DOMAIN DEFAULT_RUN_EXPORTS :
                calls[i].rx[key] =
                    ExpectedBucket(recipe.metas[calls[i].out], calls[i].specs, key)

\* the metadata service is asked about nm: the manifest gave nothing and
\* the channel data lists exports for nm
ServiceAsked(nm) == ~FirstSource(nm).val.found /\ ChanneldataHasExports(nm)

\* what the metadata service gives when it is asked
ServiceYield(nm) == IF ServiceAsked(nm) THEN ArtifactInfo(nm) ELSE NoData

\* the first of the three data, in the fixed order, that holds something,
\* the download being made when dl holds
FirstOf(nm, dl) ==
    IF FirstSource(nm).val.found THEN FirstSource(nm).val
    ELSE IF ServiceYield(nm).found THEN ServiceYield(nm)
    ELSE IF dl THEN ThirdSource(nm)
    ELSE NoData

\* the bundles the cache holds for the recipes with one build requirement
\* are those of FirstOf, the download being made for the packages of dls;
\* and a failure of the metadata service is met only when it is asked
BundlesFrom(dls) ==
    NetRecipe(recipe) =>
        /\ \A p \in DOMAIN cache : \A nm \in DOMAIN cache[p] :
              cache[p][nm] = Sanitize(FirstOf(nm, nm \in dls))
        /\ (wpc = "exc" /\ exc.msg = "artifact info")
              => \E r \in Range(recipe.metas[1].build) : ServiceAsked(r.name)

\* both earlier sources gave nothing
EarlierGaveNothing(nm) == ~FirstSource(nm).val.found /\ ~ServiceYield(nm).found

\* C24 as stated: on a cache miss the bundle is built from the first of
\* manifest, metadata service and artifact download that gives data; the
\* service is asked exactly when the manifest gave nothing and the channel
\* data lists exports for the package, and the download is made exactly
\* when both earlier sources gave nothing.
C24_DownloadWhenBothEmpty ==
    BundlesFrom({nm \in PackageNames : EarlierGaveNothing(nm)})

\* the service was asked and gave nothing
AskedServiceGaveNothing(nm) == ServiceAsked(nm) /\ ~ArtifactInfo(nm).found

\* C24 amended: as above, but the download is made exactly when the
\* metadata service was asked and gave nothing; a package for which the
\* channel data lists no exports is never downloaded.
C24_DownloadWhenServiceAskedEmpty ==
    BundlesFrom({nm \in PackageNames : AskedServiceGaveNothing(nm)})

\* the exports of dl, which only the artifact holds, are in the cache
C24_Witness ==
    /\ NetRecipe(recipe) /\ net = NetOk
    /\ \E p \in DOMAIN cache :
          /\ "dl" \in DOMAIN cache[p]
          /\ cache[p]["dl"].weak = {P("dlw")}

\* the alternatives of a version string, in order, and its separators
Alternatives(s) ==
    Flatten([i \in DOMAIN SplitOn(s, ",") |-> SplitOn(SplitOn(s, ",")[i], "|")])

Separators(s) == SelectSeq(s, LAMBDA c : c \in {",", "|"})

\* the alternative starts with a comparator or holds a wildcard
Explicit(a) ==
    (\E v \in REQ_START : StartsWith(a, v)) \/ (\E i \in DOMAIN a : a[i] = "*")

\* the separators are kept, in their places and order
SeparatorsKept ==
    /\ Separators(munged[1]) = Separators(spec_str)
    /\ Len(Alternatives(munged[1])) = Len(Alternatives(spec_str))

\* C25 as stated: an alternative that starts with a comparator or holds a
\* wildcard is returned unchanged, any other with ".*" appended, each
\* alternative on its own with the separators kept; and the broadening
\* applied twice gives what it gives applied once.
C25_BroadeningAsStated ==
    /\ munged # <<>> =>
          /\ SeparatorsKept
          /\ \A i \in DOMAIN Alternatives(spec_str) :
                Alternatives(munged[1])[i] =
                    IF Explicit(Alternatives(spec_str)[i]) THEN Alternatives(spec_str)[i]
                    ELSE Alternatives(spec_str)[i] \o <<".", "*">>
    /\ Len(munged) = 2 => munged[2] = munged[1]

\* what the amended statement gives for one alternative: the blanks around
\* it go; with a comparator or a wildcard that is all, otherwise one
\* leading "=" goes and ".*" is appended
Broadened(a) ==
    IF Explicit(Strip(a)) THEN Strip(a)
    ELSE IF StartsWith(Strip(a), <<"=">>) THEN Tail(Strip(a)) \o <<".", "*">>
    ELSE Strip(a) \o <<".", "*">>

\* a blank follows the leading "=" that the broadening takes off
BlankAfterEquals(a) == ~Explicit(Strip(a)) /\ StartsWith(Strip(a), <<"=", " ">>)

\* C25 amended: each alternative is stripped of the blanks around it; one
\* that then starts with !=, ==, >, <, >=, <=, ~= or holds a wildcard is
\* returned so, any other loses one leading "=" and gets ".*" appended;
\* the separators are kept; and the broadening applied twice gives what
\* it gives applied once unless a blank follows such a leading "=", in
\* which case the second application takes off the blanks the first left.
C25_BroadeningStripsAndDropsEquals ==
    /\ munged # <<>> =>
          /\ SeparatorsKept
          /\ \A i \in DOMAIN Alternatives(spec_str) :
                Alternatives(munged[1])[i] = Broadened(Alternatives(spec_str)[i])
    /\ Len(munged) = 2 =>
          /\ SelectSeq(munged[2], LAMBDA c : c # " ")
                = SelectSeq(munged[1], LAMBDA c : c # " ")
          /\ (\A i \in DOMAIN Alternatives(spec_str) :
                  ~BlankAfterEquals(Alternatives(spec_str)[i])) => munged[2] = munged[1]

\* "=1,>1" broadened, twice: the first alternative loses its "=" and gets
\* the wildcard, the second is kept
C25_Witness ==
    /\ spec_str = <<"=", "1", ",", ">">>
    /\ munged = << <<"1", ".", "*", ",", ">">>, <<"1", ".", "*", ",", ">">> >>

\* C26: with a timeout, however the call stops (a result received, an
\* error of the worker received, the budget run out with the worker still
\* at work or dead without having sent), the worker is not running any
\* more and the ends of its pipe are closed when control is back at the
\* caller.
C26_WorkerGoneAtReturn ==
    (timeout # 0 /\ pc \in {"returned", "raised", "exited"}) =>
        /\ worker \in {"exited", "crashed", "killed"}
        /\ ~CheckRunning
        /\ conns = [parent_conn |-> "closed", child_conn |-> "closed"]

\* the budget ran out with the worker inside a phase: it was killed
C26_Witness ==
    /\ timeout # 0 /\ pc = "returned" /\ received = "timeout"
    /\ worker = "killed"
    /\ conns = [parent_conn |-> "closed", child_conn |-> "closed"]

\* the host target that the name of variant file f gives
HostTarget(f) ==
    SplitUnderscore(f)[1] \o "-" \o
        (IF SplitUnderscore(f)[2] \in KnownArchs THEN SplitUnderscore(f)[2] ELSE "64")

\* the build target: the override registered for "<platform>_<arch>", or
\* the host target
BuildTarget(f) ==
    IF HostTarget(f) = "osx-arm64" THEN "osx-64" ELSE HostTarget(f)

\* C27: the build phase of an output is solved with the handle of the
\* build target (the override for the variant's platform and arch, or the
\* host target without one), the host, run and test phases with the
\* handle of the host target that the variant file's name gives; all the
\* calls of a variant have one ordered channel list, and the
\* virtual-package channel is in it.
C27_HandlesOfThePhases ==
    \A i \in DOMAIN calls :
        /\ calls[i].platform = IF calls[i].phase = "build"
                               THEN BuildTarget(cbcs[calls[i].cbc])
                               ELSE HostTarget(cbcs[calls[i].cbc])
        /\ VirtualChannel \in Range(calls[i].channels)
        /\ \A j \in DOMAIN calls :
              calls[j].cbc = calls[i].cbc => calls[j].channels = calls[i].channels

\* the arm64 variant with a channel of the caller: the build phase was
\* solved for osx-64 and the run phase for osx-arm64, with one channel list
C27_Witness ==
    \E i, j \in DOMAIN calls :
        /\ calls[i].cbc = calls[j].cbc /\ calls[i].out = calls[j].out
        /\ calls[i].phase = "build" /\ calls[i].platform = "osx-64"
        /\ calls[j].phase = "run" /\ calls[j].platform = "osx-arm64"
        /\ calls[i].channels = <<"extra", VirtualChannel, "conda-forge/label/rc",
                                 "conda-forge", "msys2">>
        /\ calls[j].channels = calls[i].channels

\* C28: with the manifest at hand the section is chosen by the file's
\* extension, "packages.conda" for a .conda file and "packages" for any
\* other, so the exports the manifest holds for a .tar.bz2 artifact are
\* what the first source gives.
C28_SectionByExtension ==
    \A nm \in UNION {DOMAIN cache[p] : p \in DOMAIN cache} :
        net.manifest = "ok" =>
            FirstSource(nm).val =
                ManifestEntry(IF FileExt(nm) = ".conda" THEN "packages.conda"
                              ELSE "packages", nm)

=============================================================================
